---- MODULE Spec2Model ----
(***************************************************************************)
(* make_local_connectivity_scorr.py of pyClusterROI: the construction of   *)
(* the spatially constrained connectivity triplets (i, j, w_ij).           *)
(*                                                                         *)
(* Python arrays are 0-based; the sequences below are 1-based, so element  *)
(* p of a Python array a is a[p + 1] here.  Voxel indices, compact         *)
(* positions and the values stored in the vectors keep the program's       *)
(* 0-based values.                                                         *)
(*                                                                         *)
(* Numbers: the fMRI volumes of the model have two time points and integer *)
(* intensities.  A z-scored time course is then (-1, 1), (1, -1) or, for a *)
(* constant voxel, (0, 0), the functional connectivity maps are integer    *)
(* vectors and a correlation between two of them is 1, -1 or NaN, so every *)
(* quantity of the program is computed exactly.                            *)
(***************************************************************************)
EXTENDS Integers, Sequences, FiniteSets

\* ------------------------------------------------------------ bounds
\* Largest extent of the volume along one axis.
MaxDim == 3
\* Largest number of voxels of a volume.
MaxVox == 12
\* Largest number of non-zero voxels of the mask.
MaxMask == 2

\* The intensity time courses a voxel may have (two time points).
TimeCourses == {<<0, 0>>, <<0, 1>>, <<1, 0>>}
\* The thresholds the caller may pass.
ThreshSet == {-1, 1, 2}

VARIABLES
    msz,        \* shape of the mask volume
    dsz,        \* sz[1:], the spatial shape of the fMRI volume
    mskdat,     \* the flattened mask
    nimdat,     \* the fMRI data, one time course per flat voxel index
    thresh,     \* the threshold passed by the caller
    pc,         \* position in make_local_connectivity_scorr
    iv0,        \* iv as first computed: flat indices of the non-zero mask voxels
    iv,         \* iv after the zero-variance voxels are removed
    vndx,       \* positions (in iv0) of the voxels with non-zero variance
    imdat,      \* masked (then z-scored) time courses, one column per iv0 entry
    msk,        \* the sparse column vector built from the mask
    i,          \* number of seed iterations started so far (the next seed)
    ndx1d,      \* local of the last iteration: flat indices kept by the mask
    ondx1d,     \* local of the last iteration: their masked (compact) versions
    nndx,       \* local of the last iteration: where ndx1d equals the seed
    sparse_i, sparse_j, sparse_w,   \* the three accumulated vectors
    outlist,    \* the saved vector
    rt          \* the coordinate mapper's last call (its own specification)

vars == <<msz, dsz, mskdat, nimdat, thresh, pc, iv0, iv, vndx, imdat, msk, i,
          ndx1d, ondx1d, nndx, sparse_i, sparse_j, sparse_w, outlist, rt>>

\* ------------------------------------------------------------ helpers
Prod3(sz) == sz[1] * sz[2] * sz[3]

Abs(a) == IF a < 0 THEN -a ELSE a

Sign(a) == IF a < 0 THEN -1 ELSE IF a > 0 THEN 1 ELSE 0

RECURSIVE SeqSum(_)
SeqSum(s) == IF s = <<>> THEN 0 ELSE s[1] + SeqSum(Tail(s))

\* The largest r with r * r <= n.
ISqrt(n) == CHOOSE r \in 0..n : r * r <= n /\ (r + 1) * (r + 1) > n

\* numpy's nonzero(a)[0] for a vector a: the 0-based positions of its non-zero
\* entries, in increasing order.
RECURSIVE NonZeroFrom(_, _)
NonZeroFrom(a, p) ==
    IF p > Len(a) THEN <<>>
    ELSE (IF a[p] # 0 THEN <<p - 1>> ELSE <<>>) \o NonZeroFrom(a, p + 1)

NonZero(a) == NonZeroFrom(a, 1)

\* An array given by its entries, as a value that is computed once.
Arr(f) == f \o <<>>

\* a[idx] for an index vector idx (0-based values).
Take(a, idx) == Arr([n \in 1..Len(idx) |-> a[idx[n] + 1]])

\* A not-a-number and a number, as corrcoef returns them.
NaN == [nan |-> TRUE, v |-> 0]
Num(x) == [nan |-> FALSE, v |-> x]

\* ------------------------------------------------------------ coordinates
\* indx_1dto3d(idx, sz): divide() is the integer (floor) division.
indx_1dto3d(idx, sz) ==
    LET x == idx \div (sz[2] * sz[3])
        y == (idx - x * (sz[2] * sz[3])) \div sz[3]
        z == idx - x * (sz[2] * sz[3]) - y * sz[3]
    IN  <<x, y, z>>

\* A mapper that takes the stride of x from the wrong pair of extents.
indx_3dto1d_wrong_stride(idx, sz) ==
    idx[1] * (sz[1] * sz[2]) + idx[2] * sz[3] + idx[3]

\* indx_3dto1d(idx, sz) for one coordinate triple (rank(idx) == 1).
indx_3dto1d(idx, sz) ==
    idx[1] * (sz[2] * sz[3]) + idx[2] * sz[3] + idx[3]

\* indx_3dto1d(idx, sz) for an array of coordinate triples (the else branch).
indx_3dto1d_rows(idx, sz) ==
    Arr([n \in 1..Len(idx) |-> idx[n][1] * (sz[2] * sz[3]) + idx[n][2] * sz[3] + idx[n][3]])

\* The 27 offsets, in the order of the array literal: x runs fastest, z slowest.
neighbors ==
    Arr([n \in 1..27 |-> <<((n - 1) % 3) - 1, (((n - 1) \div 3) % 3) - 1, ((n - 1) \div 9) - 1>>])

\* ------------------------------------------------------------ input
\* The shapes of positive extents within the bounds.
Shapes ==
    {sz \in (1..MaxDim) \X (1..MaxDim) \X (1..MaxDim) : Prod3(sz) <= MaxVox}

\* A mask of shape sz whose non-zero voxels are the set M.
MaskOf(M, sz) == Arr([v \in 1..Prod3(sz) |-> IF (v - 1) \in M THEN 1 ELSE 0])

\* fMRI data of shape sz: the time course g[v] at the voxels of DOMAIN g, and a
\* constant signal at the voxels the program never reads.
DataOf(g, sz) ==
    Arr([v \in 1..Prod3(sz) |-> IF (v - 1) \in DOMAIN g THEN g[v - 1] ELSE <<0, 0>>])

\* ------------------------------------------------------------ normalisation
\* Number of time points of a time course (sz[0]).
NumT(col) == Len(col)

\* T times the deviation of col[t] from the mean of col.
Dev(col, t) == NumT(col) * col[t] - SeqSum(col)

\* T^3 times the (population) variance of col.
SumSqDev(col) == SeqSum(Arr([t \in 1..Len(col) |-> Dev(col, t) * Dev(col, t)]))

\* (col - mean(col)) / std(col):  dev/T divided by sqrt(ssd/T^3), which is
\* sign(dev) * sqrt(dev^2 * T / ssd); 0/0 is NaN.
ZScoreWith(col, ssd) ==
    Arr([t \in 1..Len(col) |->
        IF ssd = 0 THEN NaN
        ELSE Num(Sign(Dev(col, t))
                 * ISqrt((Dev(col, t) * Dev(col, t) * NumT(col)) \div ssd))])

ZScoreCol(col) == ZScoreWith(col, CHOOSE ssd \in {SumSqDev(col)} : TRUE)

\* x[isnan(x)] = 0 on one entry.
NanToZero(x) == IF x.nan THEN 0 ELSE x.v

\* x[isnan(x)] = 0 on a vector.
NanToZeroAll(x) == Arr([t \in 1..Len(x) |-> NanToZero(x[t])])

\* nonzero(var(imdat, 0) != 0)[0]
Vndx(im) == NonZero(Arr([p \in 1..Len(im) |-> IF SumSqDev(im[p]) # 0 THEN 1 ELSE 0]))

\* A mask vector numbered by the position in the pruned iv.
MaskIndexMap_renumbered(vn, ivp, n) ==
    [f \in 0..(n - 1) |->
        IF \E j \in 1..Len(ivp) : ivp[j] = f
        THEN CHOOSE j \in 1..Len(ivp) : ivp[j] = f
        ELSE 0]

\* A mask vector built from the in-mask voxels as they were before the pruning.
MaskIndexMap_unpruned(vn, ivp, n) ==
    [f \in 0..(n - 1) |->
        IF \E j \in 1..Len(iv0) : iv0[j] = f
        THEN CHOOSE j \in 1..Len(iv0) : iv0[j] = f
        ELSE 0]

\* csc_matrix((vndx+1, (iv, zeros(len(iv)))), shape=(prod(msz), 1)): the value at
\* flat index iv[j] is vndx[j] + 1, and 0 elsewhere.
MaskIndexMap(vn, ivp, n) ==
    [f \in 0..(n - 1) |->
        IF \E j \in 1..Len(ivp) : ivp[j] = f
        THEN vn[CHOOSE j \in 1..Len(ivp) : ivp[j] = f] + 1
        ELSE 0]

\* ------------------------------------------------------------ one seed
\* The 27 candidate coordinates of seed s and their flat indices.
AddOffsets(c) ==
    Arr([n \in 1..Len(neighbors) |-> <<c[1] + neighbors[n][1],
                                        c[2] + neighbors[n][2],
                                        c[3] + neighbors[n][3]>>])

Ndx3d(s, sz) == AddOffsets(CHOOSE c \in {indx_1dto3d(s, sz)} : TRUE)

Candidates(s, sz) == indx_3dto1d_rows(Ndx3d(s, sz), sz)

\* msk[ndx1d] raises IndexError for an index outside [-n, n).
LookupRaises(cand, n) == \E c \in 1..Len(cand) : cand[c] >= n \/ cand[c] < -n

\* msk[ndx1d] on one index: a negative index counts from the end.
Lookup(m, c, n) == IF c < 0 THEN m[c + n] ELSE m[c]

\* dot(tc.T, imdat) / (sz[0] - 1) with tc = imdat[:, on]: row j is the
\* functional connectivity map of the voxel at compact position on[j].
FcMap(on, im) ==
    Arr([j \in 1..Len(on) |->
        Arr([b \in 1..Len(im) |->
            SeqSum(Arr([t \in 1..Len(im[b]) |-> im[on[j] + 1][t] * im[b][t]]))
                \div (NumT(im[b]) - 1)])])

\* m times row j of fc, centred.
CentredBy(row, total) ==
    Arr([b \in 1..Len(row) |-> Len(row) * row[b] - total])

Centred(fc, j) == CentredBy(fc[j], CHOOSE total \in {SeqSum(fc[j])} : TRUE)

DotProduct(a, b) == SeqSum(Arr([n \in 1..Len(a) |-> a[n] * b[n]]))

CrossSum(fc, j, l) ==
    DotProduct(CHOOSE a \in {Centred(fc, j)} : TRUE, CHOOSE b \in {Centred(fc, l)} : TRUE)

\* corrcoef(fc)[j, l].  A single row has a scalar covariance, for which corrcoef
\* returns 1.  Otherwise c / sqrt(outer(d, d)) with c = X X^T / (m - 1): NaN when
\* m = 1 or when a row is constant (0/0).
CorrCoef(fc, j, l) ==
    IF Len(fc) = 1 THEN Num(1)
    ELSE IF Len(fc[j]) = 1 \/ CrossSum(fc, j, j) = 0 \/ CrossSum(fc, l, l) = 0 THEN NaN
    ELSE Num(CrossSum(fc, j, l) \div ISqrt(CrossSum(fc, j, j) * CrossSum(fc, l, l)))

\* A cutoff that also removes the values equal to the threshold.
Threshold_exclusive(r, th) == IF r <= th THEN 0 ELSE r

\* R[R < thresh] = 0 on one entry.
Threshold(r, th) == IF r < th THEN 0 ELSE r

\* R[nndx, :] after the NaN suppression and the threshold: one row per entry of
\* nn, with k columns.
WeightRowsOf(fc, nn, th) ==
    Arr([r \in 1..Len(nn) |->
        Arr([l \in 1..Len(fc) |->
            Threshold(NanToZero(CorrCoef(fc, nn[r] + 1, l)), th)])])

WeightRows(on, nn, im, th) ==
    WeightRowsOf(CHOOSE fc \in {FcMap(on, im)} : TRUE, nn, th)

\* The column vector that leaves out the multiplication by ones(len(ondx1d)).
SeedColumn_unrepeated(on, nn) == Take(on, nn)

\* (ondx1d[nndx]) * ones(len(ondx1d)), when the two shapes broadcast.
SeedColumn(on, nn) ==
    IF Len(nn) = 1 THEN Arr([n \in 1..Len(on) |-> on[nn[1] + 1]])
    ELSE Take(on, nn)

\* Whether shapes (c,) and (k,) broadcast.
Broadcasts(c, k) == c = k \/ c = 1 \/ k = 1

\* An empty weight array that already holds an entry.
InitSparseW_one == <<<<0>>>>

\* sparse_w = [[]]
InitSparseW == <<<<>>>>

\* ------------------------------------------------------------ states
\* The calls start with the arguments read and nothing computed.
Fresh(ms, ds, md, nd, th) ==
    /\ msz = ms /\ dsz = ds /\ mskdat = md /\ nimdat = nd /\ thresh = th
    /\ pc = "start"
    /\ iv0 = <<>> /\ iv = <<>> /\ vndx = <<>> /\ imdat = <<>> /\ msk = <<>>
    /\ i = 0
    /\ ndx1d = <<>> /\ ondx1d = <<>> /\ nndx = <<>>
    /\ sparse_i = <<>> /\ sparse_j = <<>> /\ sparse_w = InitSparseW
    /\ outlist = <<>>
    /\ rt = [op |-> "none", idx |-> 0, xyz |-> <<0, 0, 0>>, res |-> <<>>]

\* A mask and an fMRI volume of the same spatial shape.
Init ==
    \E sz \in Shapes :
    \E M \in {S \in SUBSET (0..(Prod3(sz) - 1)) : Cardinality(S) <= MaxMask} :
    \E g \in [M -> TimeCourses] :
    \E th \in ThreshSet :
        Fresh(sz, sz, MaskOf(M, sz), DataOf(g, sz), th)

\* Lines 93-103: read the mask, flatten it, find its non-zero voxels.
ReadMask ==
    /\ pc = "start"
    /\ iv' = NonZero(mskdat)
    /\ iv0' = iv' 
    /\ pc' = "mask_read"
    /\ UNCHANGED <<msz, dsz, mskdat, nimdat, thresh, vndx, imdat, msk, i,
                   ndx1d, ondx1d, nndx, sparse_i, sparse_j, sparse_w, outlist, rt>>

\* Lines 105-113: read the fMRI data, reshape it to time x voxels and keep the
\* in-mask columns.  imdat[:, iv] raises IndexError for a column past the end.
MaskData ==
    /\ pc = "mask_read"
    /\ IF \E p \in 1..Len(iv) : iv[p] >= Prod3(dsz)
       THEN /\ pc' = "IndexError"
            /\ UNCHANGED imdat
       ELSE /\ pc' = "masked"
            /\ imdat' = Take(nimdat, iv)
    /\ UNCHANGED <<msz, dsz, mskdat, nimdat, thresh, iv0, iv, vndx, msk, i,
                   ndx1d, ondx1d, nndx, sparse_i, sparse_j, sparse_w, outlist, rt>>

\* Lines 115-120: z-score every time course, then set the NaN values to 0.
Normalize ==
    /\ pc = "masked"
    /\ imdat' = Arr([p \in 1..Len(imdat) |-> NanToZeroAll(ZScoreCol(imdat[p]))])
    /\ pc' = "zscored"
    /\ UNCHANGED <<msz, dsz, mskdat, nimdat, thresh, iv0, iv, vndx, msk, i,
                   ndx1d, ondx1d, nndx, sparse_i, sparse_j, sparse_w, outlist, rt>>

\* Lines 122-134: remove the zero-variance voxels from iv, build the sparse mask
\* vector from what is left, and start with empty output vectors.
Prune ==
    /\ pc = "zscored"
    /\ \E vn \in {Vndx(imdat)} : \E ivp \in {Take(iv, Vndx(imdat))} :
         /\ vndx' = vn
         /\ iv' = ivp
         /\ msk' = MaskIndexMap(vn, ivp, Prod3(msz))
    /\ sparse_i' = <<>> /\ sparse_j' = <<>> /\ sparse_w' = InitSparseW
    /\ pc' = "loop"
    /\ UNCHANGED <<msz, dsz, mskdat, nimdat, thresh, iv0, imdat, i,
                   ndx1d, ondx1d, nndx, outlist, rt>>

\* Lines 136-168: the iteration of the seed iv[i].
\*   142      msk[ndx1d] raises IndexError for a candidate outside [-n, n);
\*   144-147  the candidates found in the mask vector, and their values minus 1;
\*   149      the positions where a kept candidate equals the seed;
\*   166      sparse_i grows by ondx1d;
\*   167      sparse_j grows by ondx1d[nndx] * ones(k), a ValueError when the two
\*            shapes do not broadcast;
\*   168      sparse_w (one row) grows by the columns of R[nndx, :], a ValueError
\*            when that has another number of rows.
SeedIteration ==
    /\ pc = "loop"
    /\ i < Len(iv)
    /\ i' = i + 1
    /\ \E s \in {iv[i + 1]} : \E n \in {Prod3(msz)} : \E cand \in {Candidates(iv[i + 1], dsz)} :
         IF LookupRaises(cand, n)
         THEN /\ pc' = "IndexError"
              /\ UNCHANGED <<ndx1d, ondx1d, nndx, sparse_i, sparse_j, sparse_w>>
         ELSE \E o \in {Arr([c \in 1..Len(cand) |-> Lookup(msk, cand[c], n)])} :
              \E keep \in {NonZero(o)} :
              \E nd \in {Take(cand, keep)} :
              \E on \in {Arr([c \in 1..Len(keep) |-> o[keep[c] + 1] - 1])} :
              \E nn \in {NonZero(Arr([c \in 1..Len(nd) |-> IF nd[c] = s THEN 1 ELSE 0]))} :
                /\ ndx1d' = nd
                /\ ondx1d' = on
                /\ nndx' = nn
                /\ sparse_i' = sparse_i \o on
                /\ IF ~Broadcasts(Len(nn), Len(on))
                   THEN /\ pc' = "ValueError"
                        /\ UNCHANGED <<sparse_j, sparse_w>>
                   ELSE /\ sparse_j' = sparse_j \o SeedColumn(on, nn)
                        /\ IF Len(nn) # Len(sparse_w)
                           THEN /\ pc' = "ValueError"
                                /\ UNCHANGED sparse_w
                           ELSE /\ pc' = "loop"
                                /\ sparse_w' =
                                     Arr([r \in 1..Len(sparse_w) |->
                                        sparse_w[r] \o WeightRows(on, nn, imdat, thresh)[r]])
    /\ UNCHANGED <<msz, dsz, mskdat, nimdat, thresh, iv0, iv, vndx, imdat, msk,
                   outlist, rt>>

RECURSIVE Flatten(_)
\* reshape(a, prod(shape(a))) of a two-dimensional array.
Flatten(a) == IF a = <<>> THEN <<>> ELSE a[1] \o Flatten(Tail(a))

\* Lines 171-180: flatten the weights, concatenate the three vectors and save.
Finish ==
    /\ pc = "loop"
    /\ i >= Len(iv)
    /\ sparse_w' = Flatten(sparse_w)
    /\ outlist' = sparse_i \o sparse_j \o Flatten(sparse_w)
    /\ pc' = "done"
    /\ UNCHANGED <<msz, dsz, mskdat, nimdat, thresh, iv0, iv, vndx, imdat, msk, i,
                   ndx1d, ondx1d, nndx, sparse_i, sparse_j, rt>>

Next == ReadMask \/ MaskData \/ Normalize \/ Prune \/ SeedIteration \/ Finish

Spec == Init /\ [][Next]_vars

\* ------------------------------------------------------------ other inputs
\* A mask and an fMRI volume whose spatial shapes need not agree (a mask of at
\* most one voxel).
InitAny ==
    \E ms \in Shapes : \E ds \in Shapes :
    \E M \in {S \in SUBSET (0..(Prod3(ms) - 1)) : Cardinality(S) <= 1} :
    \E g \in [M \cap (0..(Prod3(ds) - 1)) -> TimeCourses] :
    \E th \in ThreshSet :
        Fresh(ms, ds, MaskOf(M, ms), DataOf(g, ds), th)

SpecAny == InitAny /\ [][Next]_vars

\* The coordinate mapper on its own: a shape, and calls of the two functions on
\* the valid flat indices and the valid coordinates of that shape.
InitMap ==
    \E sz \in Shapes : Fresh(sz, sz, MaskOf({}, sz), DataOf(<<>>, sz), 1)

\* indx_3dto1d(indx_1dto3d(idx, sz), sz)
MapIndex ==
    /\ \E idx \in 0..(Prod3(dsz) - 1) :
         rt' = [op |-> "1d-3d-1d", idx |-> idx, xyz |-> indx_1dto3d(idx, dsz),
                res |-> indx_3dto1d(indx_1dto3d(idx, dsz), dsz)]
    /\ UNCHANGED <<msz, dsz, mskdat, nimdat, thresh, pc, iv0, iv, vndx, imdat, msk, i,
                   ndx1d, ondx1d, nndx, sparse_i, sparse_j, sparse_w, outlist>>

\* indx_1dto3d(indx_3dto1d(c, sz), sz)
MapCoords ==
    /\ \E c \in (0..(dsz[1] - 1)) \X (0..(dsz[2] - 1)) \X (0..(dsz[3] - 1)) :
         rt' = [op |-> "3d-1d-3d", idx |-> indx_3dto1d(c, dsz), xyz |-> c,
                res |-> indx_1dto3d(indx_3dto1d(c, dsz), dsz)]
    /\ UNCHANGED <<msz, dsz, mskdat, nimdat, thresh, pc, iv0, iv, vndx, imdat, msk, i,
                   ndx1d, ondx1d, nndx, sparse_i, sparse_j, sparse_w, outlist>>

NextMap == MapIndex \/ MapCoords

SpecMap == InitMap /\ [][NextMap]_vars

\* ------------------------------------------------------------ vocabulary
Raised == pc \in {"IndexError", "ValueError"}

\* The last seed iteration ran to its end; its seed is iv[i].
Completed == pc \in {"loop", "done"} /\ i > 0

\* The last seed iteration got past the mask lookup (its locals are set).
LookedUp == pc \in {"loop", "done", "ValueError"} /\ i > 0

Seed == iv[i]

\* Number of edges of the last iteration.
K == Len(ondx1d)

\* The weights as one vector (sparse_w is flattened on completion).
Weights == IF pc = "done" THEN sparse_w ELSE sparse_w[1]

\* The entries the last iteration appended to the three vectors.
LastRow(j) == sparse_i[Len(sparse_i) - K + j]
LastCol(j) == sparse_j[Len(sparse_j) - K + j]
LastW(j) == Weights[Len(Weights) - K + j]

\* The voxel (flat index) at a compact position of the in-mask sequence.
VoxelAt(c) == iv0[c + 1]

\* The voxel a kept candidate index addresses in the mask vector.
Addressed(c) == IF c < 0 THEN c + Prod3(msz) ELSE c

InVolume(c, sz) ==
    /\ 0 <= c[1] /\ c[1] < sz[1]
    /\ 0 <= c[2] /\ c[2] < sz[2]
    /\ 0 <= c[3] /\ c[3] < sz[3]

\* Voxels u and v of the volume are equal or face, edge or corner neighbours.
Adjacent(u, v, sz) ==
    \A a \in 1..3 : Abs(indx_1dto3d(u, sz)[a] - indx_1dto3d(v, sz)[a]) <= 1

InMask(v) == mskdat[v + 1] # 0

ConstantSignal(v) == nimdat[v + 1][1] = nimdat[v + 1][2]

Retained == {iv[p] : p \in 1..Len(iv)}

\* Number of mask hits among the 27 candidates of seed s.
HitsOf(cand) ==
    Len(NonZero(Arr([c \in 1..Len(cand) |-> Lookup(msk, cand[c], Prod3(msz))])))

HitCount(s) == HitsOf(CHOOSE cand \in {Candidates(s, dsz)} : TRUE)

RECURSIVE HitTotal(_)
\* The hit counts of the first p seeds, summed.
HitTotal(p) == IF p = 0 THEN 0 ELSE HitCount(iv[p]) + HitTotal(p - 1)

\* The correlation of neighbour j with the seed, as corrcoef returns it.
RawCorr(j) == CorrCoef(CHOOSE fc \in {FcMap(ondx1d, imdat)} : TRUE, nndx[1] + 1, j)

\* ------------------------------------------------------------ claims

\* C1: every edge emitted in a seed's iteration joins the seed to a voxel that
\* lies inside the volume and whose x, y and z differ from the seed's by at most
\* 1 (no edge to a non-adjacent voxel).
C1_EdgesJoinAdjacentVoxels ==
    Completed =>
        \A j \in 1..K :
            /\ InVolume(indx_1dto3d(VoxelAt(LastRow(j)), dsz), dsz)
            /\ Adjacent(VoxelAt(LastRow(j)), Seed, dsz)

\* C2: the edges of a seed's iteration hold exactly one entry for each retained
\* voxel of the seed's 3x3x3 stencil, the seed included, none twice, all with the
\* seed as column.
C2_OneEntryPerStencilVoxel ==
    Completed =>
        /\ \A j \in 1..K : \A l \in 1..K : LastRow(j) = LastRow(l) => j = l
        /\ {VoxelAt(LastRow(j)) : j \in 1..K} = {v \in Retained : Adjacent(v, Seed, dsz)}
        /\ \A j \in 1..K : VoxelAt(LastCol(j)) = Seed

\* C3 as stated: every emitted row is the flat index of the neighbour and every
\* emitted column is the flat index iv[i] of the seed.
C3_RowsAreFlatIndices ==
    Completed =>
        \A j \in 1..K : LastRow(j) = Addressed(ndx1d[j]) /\ LastCol(j) = Seed

\* C3 as amended: every emitted row and column is a position in the sequence of
\* in-mask voxels as it was before the zero-variance voxels were removed: the row
\* is the position of the neighbour, the column the position of the seed, and the
\* saved vector holds these positions.
C3_RowsAreMaskPositions ==
    Completed =>
        /\ \A j \in 1..K :
            /\ LastRow(j) \in 0..(Len(iv0) - 1)
            /\ VoxelAt(LastRow(j)) = Addressed(ndx1d[j])
            /\ LastCol(j) \in 0..(Len(iv0) - 1)
            /\ VoxelAt(LastCol(j)) = Seed
        /\ pc = "done" =>
            \A j \in 1..K :
                /\ outlist[Len(sparse_i) - K + j] = LastRow(j)
                /\ outlist[Len(sparse_i) + Len(sparse_j) - K + j] = LastCol(j)

\* A run that removed a zero-variance voxel and saved an edge whose row is not
\* the flat index of its voxel.
C3_Witness ==
    /\ pc = "done"
    /\ Len(iv) < Len(iv0)
    /\ \E j \in 1..K : outlist[Len(sparse_i) - K + j] # Addressed(ndx1d[j])

\* C4: the emitted weight is the correlation unchanged when it is at least the
\* threshold (equal included), 0 when it is below the threshold or NaN; so every
\* emitted weight is 0 or at least the threshold.
C4_ThresholdLaw ==
    Completed =>
        \A j \in 1..K :
            /\ RawCorr(j).nan => LastW(j) = 0
            /\ (~RawCorr(j).nan /\ RawCorr(j).v >= thresh) => LastW(j) = RawCorr(j).v
            /\ (~RawCorr(j).nan /\ RawCorr(j).v < thresh) => LastW(j) = 0
            /\ (LastW(j) = 0 \/ LastW(j) >= thresh)

\* An iteration with a correlation equal to the threshold that is kept and a
\* correlation below the threshold that is set to 0.
C4_Witness ==
    /\ Completed
    /\ \E j \in 1..K : ~RawCorr(j).nan /\ RawCorr(j).v = thresh /\ LastW(j) = thresh
    /\ \E j \in 1..K : ~RawCorr(j).nan /\ RawCorr(j).v < thresh /\ RawCorr(j).v # 0
                       /\ LastW(j) = 0

C6_RoundTrip ==
    /\ rt.op = "1d-3d-1d" => rt.res = rt.idx
    /\ rt.op = "3d-1d-3d" => rt.res = rt.xyz

\* A round trip from the last coordinate of a shape with three different strides.
C6_Witness ==
    /\ rt.op = "3d-1d-3d"
    /\ dsz = <<2, 2, 3>>
    /\ rt.xyz = <<1, 1, 2>>
    /\ rt.idx = 11
    /\ rt.res = rt.xyz

\* C7: with a mask whose spatial shape differs from that of the fMRI volume the
\* function aborts before masking, normalisation and the seed loop, and saves
\* nothing.
C7_ShapeMismatchAborts ==
    msz # dsz =>
        /\ pc \notin {"masked", "zscored", "loop", "done"}
        /\ imdat = <<>>
        /\ outlist = <<>>

\* C8: with no in-mask voxel, or with every in-mask voxel of constant signal,
\* the seed loop runs no iteration, nothing is raised, the function runs to its
\* end and the saved vector is empty.
C8_EmptyRetainedSet ==
    (\A v \in 0..(Prod3(msz) - 1) : InMask(v) => ConstantSignal(v)) =>
        /\ ~Raised
        /\ i = 0
        /\ pc = "done" \/ ENABLED Next
        /\ pc = "done" => outlist = <<>>

\* A finished run on a mask whose voxels were all removed for zero variance.
C8_Witness ==
    /\ pc = "done"
    /\ Len(iv0) > 0
    /\ Len(iv) = 0
    /\ outlist = <<>>

\* C9: for every seed exactly one surviving stencil neighbour is the seed itself,
\* exactly one emitted edge has row = column = seed, and the weight of that edge
\* is 1 before the threshold (so 1 is emitted, or 0 when the threshold exceeds 1).
C9_OneSelfEdgeOfWeightOne ==
    /\ LookedUp => Len(nndx) = 1
    /\ Completed =>
        /\ Cardinality({j \in 1..K : LastRow(j) = LastCol(j)}) = 1
        /\ \A j \in 1..K :
              LastRow(j) = LastCol(j) =>
                /\ RawCorr(j) = Num(1)
                /\ LastW(j) = IF thresh > 1 THEN 0 ELSE 1

\* C10: a constant in-mask voxel is not retained and is absent from the mask
\* vector built after the pruning; it is never the seed, a kept candidate, a row
\* or a column; every voxel of an emitted edge is in-mask with a non-constant
\* signal; no index is retained twice.
C10_ZeroVarianceExcluded ==
    (pc \in {"loop", "done"} \/ i > 0) =>
        /\ \A p \in 1..Len(iv) : \A q \in 1..Len(iv) : iv[p] = iv[q] => p = q
        /\ \A v \in Retained : InMask(v) /\ ~ConstantSignal(v)
        /\ \A v \in 0..(Prod3(msz) - 1) :
              (InMask(v) /\ ConstantSignal(v)) => (v \notin Retained /\ msk[v] = 0)
        /\ \A j \in 1..Len(sparse_i) : VoxelAt(sparse_i[j]) \in Retained
        /\ \A j \in 1..Len(sparse_j) : VoxelAt(sparse_j[j]) \in Retained
        /\ LookedUp => \A j \in 1..Len(ndx1d) : Addressed(ndx1d[j]) \in Retained

\* A finished run with edges on a mask that holds a constant voxel in the 3x3x3
\* neighbourhood of a seed.
C10_Witness ==
    /\ pc = "done"
    /\ Len(sparse_i) > 0
    /\ \E v \in 0..(Prod3(msz) - 1) :
          InMask(v) /\ ConstantSignal(v) /\ \E s \in Retained : Adjacent(v, s, dsz)

====
